---- MODULE Spec2Model ----
(***************************************************************************)
(* reconcile_transactions of streamlit_app.py: the reconciliation of an    *)
(* Opera PMS table (source A) with a POS table (source B) by amount.       *)
(*                                                                         *)
(* A table is [columns, amount]: its column names (each a sequence of      *)
(* characters) and the cells of its amount column, in row order.  A row is *)
(* identified by its position.  A cell of an uploaded table is a float64   *)
(* (a number of the file, NaN for an empty or N/A cell) or, where the file *)
(* holds text that is not a number, text, [txt |-> chars]; after the       *)
(* amounts are made numeric every cell is a float64:                       *)
(* [nan |-> BOOLEAN, neg |-> BOOLEAN, mag |-> <<h0, h1, h2>>], the         *)
(* magnitude counted in units of 2^-63 as h0 + h1 * 2^30 + h2 * 2^60.      *)
(* Every float64 that arises from a literal of at most three decimals      *)
(* with magnitude in [0.001, 2^19), and every difference of two of them,   *)
(* is a whole number of these units, and the arithmetic below rounds as    *)
(* IEEE 754 does (to 53 significant bits, ties to even).                   *)
(***************************************************************************)
EXTENDS Integers, Sequences, FiniteSets

VARIABLES pc, opera_df, pos_df, opera_unmatched, pos_unmatched, results, i, raised

vars == <<pc, opera_df, pos_df, opera_unmatched, pos_unmatched, results, i, raised>>

\* Largest number of rows of an input table.
MaxRows == 2

-----------------------------------------------------------------------------
(* float64 values                                                          *)

\* 2^30, the size of one limb of a magnitude.
Limb == 1073741824

BigZero == <<0, 0, 0>>

Pow2(k) == 2 ^ k

\* The number of significant bits of one limb.
RECURSIVE BitLen30(_)
BitLen30(x) ==
    IF x = 0 THEN 0
    ELSE IF x >= 256 THEN 8 + BitLen30(x \div 256)
    ELSE 1 + BitLen30(x \div 2)

\* The number of significant bits of a magnitude.
BitLen(N) ==
    IF N[3] > 0 THEN 60 + BitLen30(N[3])
    ELSE IF N[2] > 0 THEN 30 + BitLen30(N[2])
    ELSE BitLen30(N[1])

BigAdd(N, M) ==
    LET s0 == N[1] + M[1]
        s1 == N[2] + M[2] + (s0 \div Limb)
        s2 == N[3] + M[3] + (s1 \div Limb)
    IN  <<s0 % Limb, s1 % Limb, s2>>

BigLess(N, M) ==
    \/ N[3] < M[3]
    \/ N[3] = M[3] /\ N[2] < M[2]
    \/ N[3] = M[3] /\ N[2] = M[2] /\ N[1] < M[1]

\* N - M, for M <= N.
BigSub(N, M) ==
    LET d0 == N[1] - M[1]
        b0 == IF d0 < 0 THEN 1 ELSE 0
        d1 == N[2] - M[2] - b0
        b1 == IF d1 < 0 THEN 1 ELSE 0
    IN  <<d0 + b0 * Limb, d1 + b1 * Limb, N[3] - M[3] - b1>>

\* N * 2^k + c, for k <= 15 and c < 2^k.
ShlAdd(N, k, c) ==
    LET cut == Pow2(30 - k)
    IN  << (N[1] % cut) * Pow2(k) + c,
           (N[2] % cut) * Pow2(k) + (N[1] \div cut),
           (N[3] % cut) * Pow2(k) + (N[2] \div cut) >>

\* 2^s as a magnitude.
BigPow2(s) ==
    IF s < 30 THEN <<Pow2(s), 0, 0>>
    ELSE IF s < 60 THEN <<0, Pow2(s - 30), 0>>
    ELSE <<0, 0, Pow2(s - 60)>>

\* N mod 2^s, for s <= 60.
LowBits(N, s) ==
    IF s <= 30 THEN <<N[1] % Pow2(s), 0, 0>>
    ELSE <<N[1], N[2] % Pow2(s - 30), 0>>

\* Bit s of N.
BitAt(N, s) == (N[(s \div 30) + 1] \div Pow2(s % 30)) % 2

\* The float64 nearest to N + (a fraction of a unit, nonzero iff sticky):
\* N rounded to 53 significant bits, ties to even.
Round53(N, sticky) ==
    LET s == BitLen(N) - 53
    IN  IF s <= 0 THEN N
        ELSE LET low  == LowBits(N, s)
                 half == BigPow2(s - 1)
                 down == BigSub(N, low)
                 up   == \/ BigLess(half, low)
                         \/ low = half /\ (sticky \/ BitAt(N, s) = 1)
             IN  IF up THEN BigAdd(down, BigPow2(s)) ELSE down

\* One step of the long division by 1000: k more bits of the quotient.
DivDigit(r, k) == (r * Pow2(k)) \div 1000

DivRest(r, k) == (r * Pow2(k)) % 1000

\* The float64 nearest to n / 1000, n >= 0 a count of thousandths: the
\* value of a decimal literal, and of 0.01 and 0.05 in the source.
DecimalMag(n) ==
    LET r0 == n % 1000
        r1 == DivRest(r0, 15)
        r2 == DivRest(r1, 15)
        r3 == DivRest(r2, 15)
        r4 == DivRest(r3, 15)
        q  == ShlAdd(ShlAdd(ShlAdd(ShlAdd(ShlAdd(<<n \div 1000, 0, 0>>,
                  15, DivDigit(r0, 15)), 15, DivDigit(r1, 15)),
                  15, DivDigit(r2, 15)), 15, DivDigit(r3, 15)),
                  3, DivDigit(r4, 3))
    IN  Round53(q, DivRest(r4, 3) # 0)

NaN == [nan |-> TRUE, neg |-> FALSE, mag |-> BigZero]

Float(neg, mag) == [nan |-> FALSE, neg |-> neg, mag |-> mag]

IsZero(x) == ~x.nan /\ x.mag = BigZero

\* x == y on floats: False on a NaN, True on 0.0 and -0.0.
FloatEq(x, y) ==
    /\ ~x.nan /\ ~y.nan
    /\ x.mag = y.mag
    /\ (x.neg = y.neg \/ x.mag = BigZero)

Digits == {"0", "1", "2", "3", "4", "5", "6", "7", "8", "9"}

DigitVal(c) ==
    CASE c = "0" -> 0 [] c = "1" -> 1 [] c = "2" -> 2 [] c = "3" -> 3
      [] c = "4" -> 4 [] c = "5" -> 5 [] c = "6" -> 6 [] c = "7" -> 7
      [] c = "8" -> 8 [] c = "9" -> 9

RECURSIVE DigitsValue(_)
DigitsValue(s) ==
    IF s = <<>> THEN 0
    ELSE DigitsValue(SubSeq(s, 1, Len(s) - 1)) * 10 + DigitVal(s[Len(s)])

-----------------------------------------------------------------------------
(* Column names: .str.lower().str.strip()                                  *)

LowerChar(c) ==
    CASE c = "A" -> "a" [] c = "D" -> "d" [] c = "M" -> "m" [] c = "T" -> "t"
      [] OTHER -> c

StrLower(s) == [k \in 1..Len(s) |-> LowerChar(s[k])]

RECURSIVE StrStrip(_)
StrStrip(s) ==
    IF s = <<>> THEN s
    ELSE IF s[1] = " " THEN StrStrip(Tail(s))
    ELSE IF s[Len(s)] = " " THEN StrStrip(SubSeq(s, 1, Len(s) - 1))
    ELSE s

StandardizeColumns(cols) == [k \in 1..Len(cols) |-> StrStrip(StrLower(cols[k]))]

-----------------------------------------------------------------------------
(* Amount cells: .astype(str).str.replace('[^\d.-]', '') and pd.to_numeric *)

IsText(c) == "txt" \in DOMAIN c

DigitChar(d) ==
    CASE d = 0 -> "0" [] d = 1 -> "1" [] d = 2 -> "2" [] d = 3 -> "3"
      [] d = 4 -> "4" [] d = 5 -> "5" [] d = 6 -> "6" [] d = 7 -> "7"
      [] d = 8 -> "8" [] d = 9 -> "9"

RECURSIVE NatStr(_)
NatStr(n) ==
    IF n < 10 THEN <<DigitChar(n)>>
    ELSE Append(NatStr(n \div 10), DigitChar(n % 10))

\* The decimals of t thousandths without trailing zeros, one digit at least.
FracStr(t) ==
    IF t % 100 = 0 THEN <<DigitChar(t \div 100)>>
    ELSE IF t % 10 = 0 THEN <<DigitChar(t \div 100), DigitChar((t \div 10) % 10)>>
    ELSE <<DigitChar(t \div 100), DigitChar((t \div 10) % 10), DigitChar(t % 10)>>

\* The count of thousandths nearest to a magnitude: the whole part times
\* 1000 plus the fraction F times 1000 (as 1024 F - 16 F - 8 F), rounded.
Thousandths(N) ==
    LET F == <<N[1], N[2], N[3] % 8>>
        P == BigAdd(BigSub(BigSub(ShlAdd(F, 10, 0), ShlAdd(F, 4, 0)),
                           ShlAdd(F, 3, 0)),
                    BigPow2(62))
    IN  (N[3] \div 8) * 1000 + (P[3] \div 8)

\* str(x) of a float64: 'nan', or the shortest decimal that reads back as
\* x, which for the float64 of a literal of at most three decimals is that
\* literal, written with one decimal at least ('100.2', '0.0', '-100.2').
FloatStr(x) ==
    IF x.nan THEN <<"n", "a", "n">>
    ELSE LET n == Thousandths(x.mag)
         IN  (IF x.neg THEN <<"-">> ELSE <<>>)
             \o NatStr(n \div 1000) \o <<".">> \o FracStr(n % 1000)

\* .astype(str): a text cell stays as it is, a number becomes its str().
AsTypeStr(c) == IF IsText(c) THEN c.txt ELSE FloatStr(c)

IsNumericChar(c) == c \in Digits \cup {".", "-"}

StripNonNumeric(s) == SelectSeq(s, IsNumericChar)

\* The decimals of a literal as thousandths: "5" is 500, "005" is 5.
FracValue(f) ==
    DigitsValue(SubSeq(f \o <<"0", "0", "0">>, 1, 3))

\* pd.to_numeric(errors='coerce') of a string of digits, '.' and '-', the
\* literal of at most three decimals.
ToNumeric(t) ==
    LET neg  == Len(t) > 0 /\ t[1] = "-"
        body == IF neg THEN Tail(t) ELSE t
        dots == {k \in 1..Len(body) : body[k] = "."}
        wellformed == /\ \A k \in 1..Len(body) : body[k] # "-"
                      /\ Cardinality(dots) <= 1
                      /\ \E k \in 1..Len(body) : body[k] \in Digits
        dot  == IF dots = {} THEN Len(body) + 1 ELSE CHOOSE k \in dots : TRUE
        n    == DigitsValue(SubSeq(body, 1, dot - 1)) * 1000
                + FracValue(SubSeq(body, dot + 1, Len(body)))
    IN  IF ~wellformed THEN NaN ELSE Float(neg, DecimalMag(n))

NumericAmount(c) == ToNumeric(StripNonNumeric(AsTypeStr(c)))

NumericColumn(col) == [k \in 1..Len(col) |-> NumericAmount(col[k])]

-----------------------------------------------------------------------------
(* Comparisons of reconcile_transactions                                   *)

\* The literal 0.01 of the exact test.
Point01 == DecimalMag(10)

AmountName == <<"a", "m", "o", "u", "n", "t">>

\* The position of the 'amount' column, 0 when there is none.
AmountColumn(df) ==
    IF \E k \in 1..Len(df.columns) : df.columns[k] = AmountName
    THEN CHOOSE k \in 1..Len(df.columns) : df.columns[k] = AmountName
    ELSE 0

\* iterrows() yields rows of dtype object, whose values are plain Python
\* numbers, when the table has a column that is not numeric (here: any
\* column besides the amount); a table of numeric columns yields numpy floats.
ObjectRows(df) == \E k \in 1..Len(df.columns) : k # AmountColumn(df)

\* Difference with NaN read as 0.0, as after a fillna(0).
DifferenceFillNa(a, b) ==
    LET x == IF a.nan THEN Float(FALSE, BigZero) ELSE a
        y == IF b.nan THEN Float(FALSE, BigZero) ELSE b
    IN  Float(FALSE, IF x.neg = y.neg
                     THEN (IF BigLess(x.mag, y.mag) THEN BigSub(y.mag, x.mag)
                           ELSE BigSub(x.mag, y.mag))
                     ELSE BigAdd(x.mag, y.mag))

\* abs(opera_row['amount'] - pos_row['amount']): the exact difference
\* rounded to a float64; NaN when either is NaN.
Difference(a, b) ==
    IF a.nan \/ b.nan THEN NaN
    ELSE Float(FALSE,
               Round53(IF a.neg = b.neg
                       THEN (IF BigLess(a.mag, b.mag) THEN BigSub(b.mag, a.mag)
                             ELSE BigSub(a.mag, b.mag))
                       ELSE BigAdd(a.mag, b.mag),
                       FALSE))

\* ExactTest without the abs(): opera - pos < 0.01.
ExactTestSigned(a, b) ==
    LET d == Difference(a, b)
    IN  ~d.nan /\ (BigLess(d.mag, Point01)
                   \/ (a.neg /\ ~b.neg)
                   \/ (a.neg = b.neg /\ (a.neg <=> BigLess(b.mag, a.mag))))

\* abs(opera_row['amount'] - pos_row['amount']) < 0.01; False on a NaN.
ExactTest(a, b) ==
    LET d == Difference(a, b) IN ~d.nan /\ BigLess(d.mag, Point01)

\* difference > 0; False on a NaN.
Positive(d) == ~d.nan /\ d.mag # BigZero

\* The float64 quotient d / a of two positive floats is below the float64
\* 0.05, which is 0x1999999999999A * 2^-57: the exact quotient is below the
\* midpoint (2^58 - 4) / (20 * 2^58) of that float and the one before it
\* (a tie rounds to the even 0.05), that is a < 2^56 * (a - 20 * d).
QuotientBelow(d, a) ==
    LET d4  == BigAdd(BigAdd(d, d), BigAdd(d, d))
        d16 == BigAdd(BigAdd(d4, d4), BigAdd(d4, d4))
        d20 == BigAdd(d16, d4)
    IN  /\ BigLess(d20, a)
        /\ BigLess(<<a[3] * 16 + (a[2] \div Pow2(26)), 0, 0>>, BigSub(a, d20))

\* difference/opera_row['amount'] < 0.05, for a positive difference and a
\* division that does not raise: a negative amount gives a negative
\* quotient, a zero amount (numpy) gives inf.
RatioBelow(d, a) ==
    IF a.neg THEN TRUE
    ELSE IF a.mag = BigZero THEN FALSE
    ELSE QuotientBelow(d.mag, a.mag)

\* difference/opera_row['amount'] raises ZeroDivisionError: both operands
\* are Python numbers and the amount is zero.
DivisionRaises(a, objA, objB) == objA /\ objB /\ IsZero(a)

\* Series != scalar: True on a NaN.
AmountNe(x, y) == ~FloatEq(x, y)

\* The first of the rows j..Len(pos) of pos_df passing the exact test
\* against a, 0 when none.
RECURSIVE ExactFrom(_, _, _)
ExactFrom(a, pos, j) ==
    IF j > Len(pos) THEN 0
    ELSE IF ExactTest(a, pos[j]) THEN j
    ELSE ExactFrom(a, pos, j + 1)

\* The first row of pos_df passing the exact test against a, 0 when none.
FirstExact(a, pos) == ExactFrom(a, pos, 1)

\* The first of the rows j..Len(pos) of pos_df at which the fuzzy scan
\* raises, 0 when none.
RECURSIVE RaiseFrom(_, _, _, _)
RaiseFrom(a, pos, raises, j) ==
    IF j > Len(pos) THEN 0
    ELSE IF Positive(Difference(a, pos[j])) /\ raises THEN j
    ELSE RaiseFrom(a, pos, raises, j + 1)

\* The first row of pos_df at which the fuzzy scan raises, 0 when none.
FirstRaise(a, pos, objA, objB) ==
    IF DivisionRaises(a, objA, objB) THEN RaiseFrom(a, pos, TRUE, 1) ELSE 0

\* FuzzyScan stopping at its first entry, as the exact scan does.
RECURSIVE FuzzyScanFirst(_, _, _, _)
FuzzyScanFirst(r, a, pos, n) ==
    IF n = 0 THEN <<>>
    ELSE LET d == Difference(a, pos[n])
             rest == FuzzyScanFirst(r, a, pos, n - 1)
         IN  IF rest = <<>> /\ Positive(d) /\ RatioBelow(d, a)
             THEN <<[opera |-> r, pos |-> n, difference |-> d]>>
             ELSE rest

\* The entries the fuzzy scan of row r appends, rows 1..n of pos_df scanned.
RECURSIVE FuzzyScan(_, _, _, _)
FuzzyScan(r, a, pos, n) ==
    IF n = 0 THEN <<>>
    ELSE LET d == Difference(a, pos[n])
             rest == FuzzyScan(r, a, pos, n - 1)
         IN  IF Positive(d) /\ RatioBelow(d, a)
             THEN Append(rest, [opera |-> r, pos |-> n, difference |-> d])
             ELSE rest

\* RemoveAmount dropping the rows within the tolerance of the value.
RemoveAmountWithin(unmatched, amounts, value) ==
    SelectSeq(unmatched, LAMBDA r : ~ExactTest(amounts[r], value))

\* frame[frame['amount'] != value], on the row positions kept so far.
RemoveAmount(unmatched, amounts, value) ==
    SelectSeq(unmatched, LAMBDA r : AmountNe(amounts[r], value))

-----------------------------------------------------------------------------
(* Inputs                                                                  *)

\* A text cell: what read_csv / read_excel leave of a cell that is not a
\* number and not one of the markers ('', 'N/A', 'nan', ...) read as NaN.
Txt(s) == [txt |-> s]

\* A numeric cell: the float64 read from a literal of n thousandths.
Num(neg, n) == Float(neg, DecimalMag(n))

\* Cells of the amount column of the uploaded Opera table: the numbers
\* 100.2, 0.0 and -100.2, and NaN (an empty or N/A cell).
OperaCells ==
    { Num(FALSE, 100200),
      Num(FALSE, 0),
      Num(TRUE, 100200),
      NaN }

\* Cells of the amount column of the uploaded POS table: the numbers 100.2,
\* 100.21 and 100.19 (0.01 above and below 100.2; the float difference is
\* below 0.01 for the first and not for the second) and 105.21 (5% above
\* 100.2; the float quotient is below 0.05), NaN (an empty or N/A cell),
\* and the text "$95.19" (5% below 100.2; the float quotient is not below
\* 0.05).
PosCells ==
    { Num(FALSE, 100200),
      Num(FALSE, 100210),
      Num(FALSE, 100190),
      Num(FALSE, 105210),
      NaN,
      Txt(<<"$", "9", "5", ".", "1", "9">>) }

\* Column names of an uploaded table: the amount alone, already standard,
\* or a text column "Date" and "Amount " as exported.
RawColumns ==
    { <<AmountName>>,
      << <<"D", "a", "t", "e">>, <<"A", "m", "o", "u", "n", "t", " ">> >> }

RawTables(cells) ==
    { [columns |-> c, amount |-> s] :
        c \in RawColumns, s \in UNION {[1..n -> cells] : n \in 0..MaxRows} }

NoRaise == [opera |-> 0, pos |-> 0]

-----------------------------------------------------------------------------
(* reconcile_transactions(opera_df, pos_df)                                *)

Init ==
    /\ pc = "start"
    /\ opera_df \in RawTables(OperaCells)
    /\ pos_df \in RawTables(PosCells)
    /\ opera_unmatched = <<>>
    /\ pos_unmatched = <<>>
    /\ results = [matched |-> <<>>, unmatched_opera |-> <<>>,
                  unmatched_pos |-> <<>>, amount_mismatch |-> <<>>]
    /\ i = 0
    /\ raised = NoRaise

\* Lines 71-89: the column names and the amount column of the caller's two
\* tables are replaced in place, then the working copies are taken.
Normalize ==
    /\ pc = "start"
    /\ opera_df' = [columns |-> StandardizeColumns(opera_df.columns),
                    amount  |-> NumericColumn(opera_df.amount)]
    /\ pos_df' = [columns |-> StandardizeColumns(pos_df.columns),
                  amount  |-> NumericColumn(pos_df.amount)]
    /\ AmountColumn(opera_df') # 0
    /\ AmountColumn(pos_df') # 0
    /\ opera_unmatched' = [r \in 1..Len(opera_df.amount) |-> r]
    /\ pos_unmatched' = [r \in 1..Len(pos_df.amount) |-> r]
    /\ i' = 1
    /\ pc' = "loop"
    /\ UNCHANGED <<results, raised>>

\* Lines 92-108: row i of opera_df has a first exact match in pos_df.
ExactMatch ==
    /\ pc = "loop"
    /\ i <= Len(opera_df.amount)
    /\ LET a == opera_df.amount[i]
           j == FirstExact(a, pos_df.amount)
       IN  /\ j # 0
           /\ results' = [results EXCEPT !.matched =
                            Append(@, [opera |-> i, pos |-> j, amount |-> a])]
           /\ opera_unmatched' = RemoveAmount(opera_unmatched, opera_df.amount, a)
           /\ pos_unmatched' = RemoveAmount(pos_unmatched, pos_df.amount, pos_df.amount[j])
    /\ i' = i + 1
    /\ UNCHANGED <<pc, opera_df, pos_df, raised>>

\* Lines 92-119: row i has no exact match; the fuzzy scan runs to its end.
FuzzyMatch ==
    /\ pc = "loop"
    /\ i <= Len(opera_df.amount)
    /\ LET a == opera_df.amount[i]
       IN  /\ FirstExact(a, pos_df.amount) = 0
           /\ FirstRaise(a, pos_df.amount, ObjectRows(opera_df), ObjectRows(pos_df)) = 0
           /\ results' = [results EXCEPT !.amount_mismatch =
                            @ \o FuzzyScan(i, a, pos_df.amount, Len(pos_df.amount))]
    /\ i' = i + 1
    /\ UNCHANGED <<pc, opera_df, pos_df, opera_unmatched, pos_unmatched, raised>>

\* Lines 110-114: row i has no exact match and the division of the fuzzy
\* scan raises ZeroDivisionError, which leaves reconcile_transactions.
FuzzyRaise ==
    /\ pc = "loop"
    /\ i <= Len(opera_df.amount)
    /\ LET a == opera_df.amount[i]
           j == FirstRaise(a, pos_df.amount, ObjectRows(opera_df), ObjectRows(pos_df))
       IN  /\ FirstExact(a, pos_df.amount) = 0
           /\ j # 0
           /\ raised' = [opera |-> i, pos |-> j]
    /\ pc' = "raised"
    /\ UNCHANGED <<opera_df, pos_df, opera_unmatched, pos_unmatched, results, i>>

\* Lines 121-125: the working copies become the unmatched lists.
Finish ==
    /\ pc = "loop"
    /\ i > Len(opera_df.amount)
    /\ results' = [results EXCEPT !.unmatched_opera = opera_unmatched,
                                  !.unmatched_pos = pos_unmatched]
    /\ pc' = "done"
    /\ UNCHANGED <<opera_df, pos_df, opera_unmatched, pos_unmatched, i, raised>>

Next == Normalize \/ ExactMatch \/ FuzzyMatch \/ FuzzyRaise \/ Finish

Spec == Init /\ [][Next]_vars

-----------------------------------------------------------------------------------------------------------------------------------------------------
(* Properties.  |a - b| and |a - b| / a are the floats the program holds.  *)

Done == pc = "done"

Normalized == pc # "start"

RowsA == 1..Len(opera_df.amount)

RowsB == 1..Len(pos_df.amount)

AmountA(r) == opera_df.amount[r]

AmountB(q) == pos_df.amount[q]

Range(s) == {s[k] : k \in 1..Len(s)}

Count(b) == IF b THEN 1 ELSE 0

Parseable(r, q) == ~AmountA(r).nan /\ ~AmountB(q).nan

Dist(r, q) == Difference(AmountA(r), AmountB(q))

\* |a - b| < 0.01
Within(r, q) == BigLess(Dist(r, q).mag, Point01)

\* 0 < |a - b| / a < 0.05
InWindow(r, q) ==
    /\ ~AmountA(r).neg
    /\ AmountA(r).mag # BigZero
    /\ Dist(r, q).mag # BigZero
    /\ QuotientBelow(Dist(r, q).mag, AmountA(r).mag)

MatchedPair(r, q) == \E m \in Range(results.matched) : m.opera = r /\ m.pos = q

MismatchPair(r, q) == \E m \in Range(results.amount_mismatch) : m.opera = r /\ m.pos = q

PairsOfA(r) ==
    Cardinality({k \in 1..Len(results.matched) : results.matched[k].opera = r})
    + Cardinality({k \in 1..Len(results.amount_mismatch) : results.amount_mismatch[k].opera = r})

PairsOfB(q) ==
    Cardinality({k \in 1..Len(results.matched) : results.matched[k].pos = q})
    + Cardinality({k \in 1..Len(results.amount_mismatch) : results.amount_mismatch[k].pos = q})

\* C1: after the call every row of A is in exactly one of a matched pair, a
\* mismatch pair and unmatched_opera, and every row of B in exactly one of a
\* matched pair, a mismatch pair and unmatched_pos.
C1_PartitionCompleteness ==
    Done =>
        /\ \A r \in RowsA :
              Count(\E q \in RowsB : MatchedPair(r, q))
              + Count(\E q \in RowsB : MismatchPair(r, q))
              + Count(r \in Range(results.unmatched_opera)) = 1
        /\ \A q \in RowsB :
              Count(\E r \in RowsA : MatchedPair(r, q))
              + Count(\E r \in RowsA : MismatchPair(r, q))
              + Count(q \in Range(results.unmatched_pos)) = 1

\* C2: after the call every row of A and every row of B is in at most one
\* pair of matched and amount_mismatch taken together.
C2_AtMostOnePair ==
    Done => /\ \A r \in RowsA : PairsOfA(r) <= 1
            /\ \A q \in RowsB : PairsOfB(q) <= 1

\* C3 as stated: after the call, for parseable a and b, matched holds the
\* pair (a, b) if |a - b| < 0.01 and does not hold it if |a - b| >= 0.01.
C3_ExactnessThreshold ==
    Done => \A r \in RowsA : \A q \in RowsB :
                Parseable(r, q) => (Within(r, q) <=> MatchedPair(r, q))

\* C3 amended: after the call, for parseable a and b, if |a - b| < 0.01 then
\* matched holds exactly one pair of a, with the first row of B within 0.01
\* of a; if |a - b| >= 0.01 then matched does not hold the pair (a, b).
C3_FirstExactMatch ==
    Done =>
        LET near == [r \in RowsA |-> {q \in RowsB : Parseable(r, q) /\ Within(r, q)}]
        IN  \A r \in RowsA : \A q \in RowsB :
                Parseable(r, q) =>
                    /\ q \in near[r] =>
                          \E f \in near[r] :
                              /\ \A k \in near[r] : f <= k
                              /\ \A p \in RowsB : MatchedPair(r, p) <=> p = f
                              /\ Cardinality({k \in 1..Len(results.matched) :
                                                results.matched[k].opera = r}) = 1
                    /\ q \notin near[r] => ~MatchedPair(r, q)

\* A row of A with a row of B within 0.01 that is not the first such row,
\* a matched pair of two different amounts, and a row of B that is not
\* within 0.01 of a row of A.
C3_Witness ==
    /\ Done
    /\ \E r \in RowsA : \E q \in RowsB :
          /\ Parseable(r, q) /\ Within(r, q) /\ ~MatchedPair(r, q)
    /\ \E m \in Range(results.matched) : ~FloatEq(AmountA(m.opera), AmountB(m.pos))
    /\ \E r \in RowsA : \E q \in RowsB : Parseable(r, q) /\ ~Within(r, q)

\* C4 as stated: after the call, every a and b with 0 < |a - b| / a < 0.05
\* are a pair of amount_mismatch.
C4_FuzzyCompleteness ==
    Done => \A r \in RowsA : \A q \in RowsB :
                (Parseable(r, q) /\ InWindow(r, q)) => MismatchPair(r, q)

\* C4 amended: after the call, every a with no row of B within 0.01 of it
\* and every b with 0 < |a - b| / a < 0.05 are a pair of amount_mismatch.
C4_FuzzyCompletenessUnmatched ==
    Done => \A r \in RowsA :
                (\A p \in RowsB : ~(Parseable(r, p) /\ Within(r, p))) =>
                    \A q \in RowsB :
                        (Parseable(r, q) /\ InWindow(r, q)) => MismatchPair(r, q)

\* A row of A without exact match and two rows of B in its window.
C4_Witness ==
    /\ Done
    /\ \E r \in RowsA : \E q1, q2 \in RowsB :
          /\ q1 # q2
          /\ Parseable(r, q1) /\ InWindow(r, q1) /\ MismatchPair(r, q1)
          /\ Parseable(r, q2) /\ InWindow(r, q2) /\ MismatchPair(r, q2)

\* C5: after the call no row of a pair of amount_mismatch is in
\* unmatched_opera or unmatched_pos.
C5_MismatchNotUnmatched ==
    Done => \A m \in Range(results.amount_mismatch) :
                /\ m.opera \notin Range(results.unmatched_opera)
                /\ m.pos \notin Range(results.unmatched_pos)

\* C6: a row whose amount is NaN is never a row at which the call raises,
\* is in no pair of matched or amount_mismatch, stays in the working copy of
\* its table throughout the run, and is in the unmatched list of its table
\* after the call.
C6_UnparseableUnmatched ==
    Normalized =>
        /\ raised # NoRaise =>
              ~AmountA(raised.opera).nan /\ ~AmountB(raised.pos).nan
        /\ \A m \in Range(results.matched) \cup Range(results.amount_mismatch) :
              Parseable(m.opera, m.pos)
        /\ \A r \in RowsA : AmountA(r).nan => r \in Range(opera_unmatched)
        /\ \A q \in RowsB : AmountB(q).nan => q \in Range(pos_unmatched)
        /\ Done => /\ \A r \in RowsA :
                        AmountA(r).nan => r \in Range(results.unmatched_opera)
                   /\ \A q \in RowsB :
                        AmountB(q).nan => q \in Range(results.unmatched_pos)

\* A NaN row in each table, returned as unmatched, after an exact match
\* removed rows from both working copies.
C6_Witness ==
    /\ Done
    /\ \E r \in RowsA : AmountA(r).nan /\ r \in Range(results.unmatched_opera)
    /\ \E q \in RowsB : AmountB(q).nan /\ q \in Range(results.unmatched_pos)
    /\ results.matched # <<>>
    /\ Len(results.unmatched_opera) < Len(opera_df.amount)
    /\ Len(results.unmatched_pos) < Len(pos_df.amount)

\* C7: the call never raises at a row of A of amount 0, and no pair of
\* amount_mismatch has a row of A of amount 0.
C7_ZeroAmountNoFault ==
    Normalized =>
        /\ raised # NoRaise => ~IsZero(AmountA(raised.opera))
        /\ \A m \in Range(results.amount_mismatch) : ~IsZero(AmountA(m.opera))

\* C8: no step of the call changes the column names or the amount cells of
\* the caller's two tables.
C8_InputsUnchanged ==
    [][opera_df' = opera_df /\ pos_df' = pos_df]_vars

\* C9: every pair (a, b) of amount_mismatch has 0 < |a - b| / a < 0.05 and
\* difference = |a - b|.
C9_MismatchWindow ==
    Normalized =>
        \A m \in Range(results.amount_mismatch) :
            /\ Parseable(m.opera, m.pos)
            /\ InWindow(m.opera, m.pos)
            /\ m.difference = Dist(m.opera, m.pos)

\* x != y on floats: True on a NaN.
NotEqual(x, y) ==
    x.nan \/ y.nan \/ x.mag # y.mag \/ (x.neg # y.neg /\ x.mag # BigZero)

\* The rows 1..n of a table whose amount differs from each of the amounts used.
KeptRows(amounts, used) ==
    SelectSeq([r \in 1..Len(amounts) |-> r],
              LAMBDA r : \A u \in used : NotEqual(amounts[r], u))

\* C10: throughout the run the working copy of A is the subsequence of the
\* rows of A whose amount equals the amount of no row of A in a matched
\* pair so far, the working copy of B the subsequence of the rows of B whose
\* amount equals the amount of no row of B in a matched pair so far (so
\* that the fuzzy pass removes nothing), and after the call unmatched_opera
\* and unmatched_pos are these two subsequences.
C10_RemovalByValue ==
    Normalized =>
        LET usedA == {AmountA(m.opera) : m \in Range(results.matched)}
            usedB == {AmountB(m.pos) : m \in Range(results.matched)}
        IN  /\ opera_unmatched = KeptRows(opera_df.amount, usedA)
            /\ pos_unmatched = KeptRows(pos_df.amount, usedB)
            /\ Done => /\ results.unmatched_opera = KeptRows(opera_df.amount, usedA)
                       /\ results.unmatched_pos = KeptRows(pos_df.amount, usedB)

\* A matched pair, a mismatch pair, and a row of B left unmatched although
\* it is within 0.01 of a matched row of A.
C10_Witness ==
    /\ Done
    /\ results.matched # <<>>
    /\ results.amount_mismatch # <<>>
    /\ \E m \in Range(results.matched) : \E q \in Range(results.unmatched_pos) :
          Parseable(m.opera, q) /\ Within(m.opera, q)

====
